---- MODULE Spec2Model ----
(***************************************************************************)
(* A model of the AVL tree of src/avl.rs: BinaryTree<i32, (i8, i8)> with   *)
(* insert, fix_metadata, rotate_left, rotate_right and balance.            *)
(*                                                                         *)
(* A tree is a record [metadata, value, left, right]; metadata is the pair *)
(* <<left height, right height>>; an Option<Box<tree>> is a sequence of    *)
(* length 0 (None) or 1 (Some).  A panic (assert!, assert_eq!, unwrap on   *)
(* None, unreachable!) is recorded in the `abort` field of an operation's  *)
(* result together with the tree as it was left at the panic.              *)
(* The heights stay far below the i8 range for the trees explored here,    *)
(* so the metadata arithmetic is modelled on the integers.                 *)
(***************************************************************************)
EXTENDS Integers, Sequences, FiniteSets, TLC

\* Number of distinct values that may be inserted (values are 10, 20, ...).
NumValues == 8
\* Number of distinct values of the trees handed to a single rotation.
RotNumValues == 5
\* Length up to which the sequence of inserted values is remembered.
HistLen == 3

Values == {10 * i : i \in 1..NumValues}
RotValues == {10 * i : i \in 1..RotNumValues}

VARIABLES
    tree,       \* the root BinaryTree
    prev,       \* the tree before the last operation
    op,         \* the last operation: "new", "insert", "rotate_left", "rotate_right"
    lastValue,  \* the argument of the last insert (the root's value after "new")
    ret,        \* the value returned by the last insert
    abort,      \* NoAbort, or the panic raised by the last operation
    shadow,     \* the tree built from the same values by insert_recompute
    hist        \* the values inserted so far, oldest first, while no more than
                \* HistLen of them; <<>> once more were inserted

vars == <<tree, prev, op, lastValue, ret, abort, shadow, hist>>

None == <<>>
Some(t) == <<t>>
NoAbort == "none"

max(a, b) == IF a >= b THEN a ELSE b

\* A node without children, as built at lines 143-148, 157-162, 177, 190 and 85.
Leaf(v) == [metadata |-> <<0, 0>>, value |-> v, left |-> None, right |-> None]

\* The throwaway node of rotate_left / rotate_right (lines 235, 246).
Placeholder == [metadata |-> <<0, 0>>, value |-> 0, left |-> None, right |-> None]

\* fix_metadata with the "+ 1" of the both-children case missing on the left.
fix_metadata_off_by_one(self) ==
    IF self.left # None /\ self.right # None
    THEN [self EXCEPT !.metadata =
            <<max(self.left[1].metadata[1], self.left[1].metadata[2]),
              max(self.right[1].metadata[1], self.right[1].metadata[2]) + 1>>]
    ELSE IF self.left = None /\ self.right # None
    THEN [self EXCEPT !.metadata =
            <<0, max(self.right[1].metadata[1], self.right[1].metadata[2]) + 1>>]
    ELSE IF self.left # None /\ self.right = None
    THEN [self EXCEPT !.metadata =
            <<max(self.left[1].metadata[1], self.left[1].metadata[2]) + 1, 0>>]
    ELSE [self EXCEPT !.metadata = <<0, 0>>]

\* fix_metadata (lines 208-230): the node's metadata from its children's metadata.
fix_metadata(self) ==
    IF self.left # None /\ self.right # None
    THEN [self EXCEPT !.metadata =
            <<max(self.left[1].metadata[1], self.left[1].metadata[2]) + 1,
              max(self.right[1].metadata[1], self.right[1].metadata[2]) + 1>>]
    ELSE IF self.left = None /\ self.right # None
    THEN [self EXCEPT !.metadata =
            <<0, max(self.right[1].metadata[1], self.right[1].metadata[2]) + 1>>]
    ELSE IF self.left # None /\ self.right = None
    THEN [self EXCEPT !.metadata =
            <<max(self.left[1].metadata[1], self.left[1].metadata[2]) + 1, 0>>]
    ELSE [self EXCEPT !.metadata = <<0, 0>>]

\* rotate_left with lines 240 and 241 exchanged: the promoted node's metadata
\* is computed before the metadata of the node that moved down.
rotate_left_fix_order(self) ==
    LET right1 == self.right
        self1 == [self EXCEPT !.right = Some(Placeholder)]
    IN  IF right1 = None
        THEN [tree |-> self1, abort |-> "rotate_left: unwrap on None"]
        ELSE
        LET self2 == [self1 EXCEPT !.right = right1[1].left]
            right2 == [right1[1] EXCEPT !.left = self1.right]
            right3 == [right2 EXCEPT !.left = Some(self2)]
            right4 == fix_metadata(right3)
            right5 == [right4 EXCEPT !.left = Some(fix_metadata(right4.left[1]))]
        IN  [tree |-> right5, abort |-> NoAbort]

\* rotate_left without the final swap of line 242: the placeholder stays in
\* the tree and the rotated subtree is dropped with the local.
rotate_left_no_final_swap(self) ==
    LET right1 == self.right
        self1 == [self EXCEPT !.right = Some(Placeholder)]
    IN  IF right1 = None
        THEN [tree |-> self1, abort |-> "rotate_left: unwrap on None"]
        ELSE
        LET right2 == [right1[1] EXCEPT !.left = self1.right]
            self3 == right2.left[1]
        IN  [tree |-> fix_metadata(self3), abort |-> NoAbort]

\* rotate_left that hangs the promoted node's right subtree, not its left one,
\* below the node that moves down.
rotate_left_wrong_grandchild(self) ==
    LET right1 == self.right
        self1 == [self EXCEPT !.right = Some(Placeholder)]
    IN  IF right1 = None
        THEN [tree |-> self1, abort |-> "rotate_left: unwrap on None"]
        ELSE
        LET self2 == [self1 EXCEPT !.right = right1[1].right]
            right2 == [right1[1] EXCEPT !.right = right1[1].left]
            right3 == [right2 EXCEPT !.left = Some(fix_metadata(self2))]
        IN  [tree |-> fix_metadata(right3), abort |-> NoAbort]

\* rotate_left (lines 234-243), swap by swap.  `selfN` and `rightN` are the
\* contents of *self and of the local `right` after the N-th statement.
rotate_left(self) ==
    LET \* 235-236: right = Some(placeholder); swap(right, &mut self.right)
        right1 == self.right
        self1 == [self EXCEPT !.right = Some(Placeholder)]
    IN  IF right1 = None
        THEN \* 237: right.as_mut().unwrap() panics on None
             [tree |-> self1, abort |-> "rotate_left: unwrap on None"]
        ELSE
        LET \* 237: swap(&mut self.right, &mut right.left)
            self2 == [self1 EXCEPT !.right = right1[1].left]
            right2 == [right1[1] EXCEPT !.left = self1.right]
            \* 238: swap(&mut **right.left, self); right2.left is the placeholder
            self3 == right2.left[1]
            right3 == [right2 EXCEPT !.left = Some(self2)]
            \* 239: self.fix_metadata()
            self4 == fix_metadata(self3)
            \* 240: right.left.fix_metadata()
            right4 == [right3 EXCEPT !.left = Some(fix_metadata(right3.left[1]))]
            \* 241: right.fix_metadata()
            right5 == fix_metadata(right4)
            \* 242: swap(self, right); the local (now self4) is dropped
        IN  [tree |-> right5, abort |-> NoAbort]

\* rotate_right (lines 245-254), the mirror image of rotate_left.
rotate_right(self) ==
    LET \* 246-247
        left1 == self.left
        self1 == [self EXCEPT !.left = Some(Placeholder)]
    IN  IF left1 = None
        THEN \* 248: left.as_mut().unwrap() panics on None
             [tree |-> self1, abort |-> "rotate_right: unwrap on None"]
        ELSE
        LET \* 248: swap(&mut self.left, &mut left.right)
            self2 == [self1 EXCEPT !.left = left1[1].right]
            left2 == [left1[1] EXCEPT !.right = self1.left]
            \* 249: swap(&mut **left.right, self)
            self3 == left2.right[1]
            left3 == [left2 EXCEPT !.right = Some(self2)]
            \* 250
            self4 == fix_metadata(self3)
            \* 251
            left4 == [left3 EXCEPT !.right = Some(fix_metadata(left3.right[1]))]
            \* 252
            left5 == fix_metadata(left4)
            \* 253
        IN  [tree |-> left5, abort |-> NoAbort]

\* The first match arm of balance's `difference == 2` case (lines 272-280):
\* whether the left child is first rotated leftward.
left_child_rotates(self) ==
    /\ self.left # None
    /\ \/ self.left[1].left = None /\ self.left[1].right # None
       \/ /\ self.left[1].left # None
          /\ self.left[1].right # None
          /\ self.left[1].metadata[1] - self.left[1].metadata[2] < 0

\* The first match arm of balance's `difference == -2` case (lines 283-291):
\* whether the right child is first rotated rightward.
right_child_rotates(self) ==
    /\ self.right # None
    /\ \/ self.right[1].right = None /\ self.right[1].left # None
       \/ /\ self.right[1].right # None
          /\ self.right[1].left # None
          /\ self.right[1].metadata[1] - self.right[1].metadata[2] > 0

\* balance without the rotation of the child: every imbalance is answered by
\* a single rotation.
balance_single_rotation_only(self) ==
    LET difference == self.metadata[1] - self.metadata[2]
    IN  IF ~(difference <= 2)
        THEN [tree |-> self, abort |-> "balance: assert difference <= 2"]
        ELSE IF ~(difference >= -2)
        THEN [tree |-> self, abort |-> "balance: assert difference >= -2"]
        ELSE IF difference = 2 THEN rotate_right(self)
        ELSE IF difference = -2 THEN rotate_left(self)
        ELSE [tree |-> self, abort |-> NoAbort]

\* balance (lines 264-296).
balance(self) ==
    LET difference == self.metadata[1] - self.metadata[2]
    IN  IF ~(difference <= 2)
        THEN [tree |-> self, abort |-> "balance: assert difference <= 2"]
        ELSE IF ~(difference >= -2)
        THEN [tree |-> self, abort |-> "balance: assert difference >= -2"]
        ELSE IF difference = 2
        THEN IF left_child_rotates(self)
             THEN LET l == rotate_left(self.left[1])
                      self1 == [self EXCEPT !.left = Some(l.tree)]
                  IN  IF l.abort # NoAbort
                      THEN [tree |-> self1, abort |-> l.abort]
                      ELSE rotate_right(self1)
             ELSE rotate_right(self)
        ELSE IF difference = -2
        THEN IF right_child_rotates(self)
             THEN LET r == rotate_right(self.right[1])
                      self1 == [self EXCEPT !.right = Some(r.tree)]
                  IN  IF r.abort # NoAbort
                      THEN [tree |-> self1, abort |-> r.abort]
                      ELSE rotate_left(self1)
             ELSE rotate_left(self)
        ELSE \* 293-295: `difference < -2 && difference > 2` is never true
             [tree |-> self, abort |-> NoAbort]

\* The delta handed to the caller that ignores whether the grown side now
\* exceeds the other one.
height_delta_always_incr(grown, other, incr) == incr

\* The value of the arms at lines 172, 179, 185 and 192: `incr` when the side
\* that received the value is now exactly one higher than the other side.
height_delta(grown, other, incr) == IF grown = other + 1 THEN incr ELSE 0

\* The leaf arm without its `new_value == value` test: an equal value goes
\* to the left like a smaller one.
insert_leaf_no_duplicate_test(self, new_value) ==
    IF new_value > self.value
    THEN [tree |-> [self EXCEPT !.metadata = <<0, 1>>,
                                !.right = Some(Leaf(new_value)),
                                !.left = None],
          ret |-> 1, returned |-> FALSE]
    ELSE [tree |-> [self EXCEPT !.metadata = <<1, 0>>,
                                !.left = Some(Leaf(new_value)),
                                !.right = None],
          ret |-> 1, returned |-> FALSE]

\* The first arm of insert's match (lines 138-167), taken by a node without
\* children.  `returned` is TRUE for the early `return 0` of line 152, which
\* leaves insert before balance and fix_metadata.
insert_leaf(self, new_value) ==
    IF new_value > self.value
    THEN [tree |-> [self EXCEPT !.metadata = <<0, 1>>,
                                !.right = Some(Leaf(new_value)),
                                !.left = None],
          ret |-> 1, returned |-> FALSE]
    ELSE IF new_value = self.value
    THEN [tree |-> self, ret |-> 0, returned |-> TRUE]
    ELSE [tree |-> [self EXCEPT !.metadata = <<1, 0>>,
                                !.left = Some(Leaf(new_value)),
                                !.right = None],
          ret |-> 1, returned |-> FALSE]

\* The end of insert (lines 199-201): balance, fix_metadata, return ret.
insert_tail(self, r) ==
    LET b == balance(self)
    IN  IF b.abort # NoAbort
        THEN [tree |-> b.tree, ret |-> r, abort |-> b.abort]
        ELSE [tree |-> fix_metadata(b.tree), ret |-> r, abort |-> NoAbort]

RECURSIVE insert(_, _)
\* insert (lines 136-202).  The result holds the tree after the call, the
\* returned delta and the panic, if any, that ended the call.
insert(self, new_value) ==
    LET left_height == self.metadata[1]
        right_height == self.metadata[2]
    IN  IF self.left = None /\ self.right = None
        THEN \* 138-167
             LET l == insert_leaf(self, new_value)
             IN  IF l.returned
                 THEN [tree |-> l.tree, ret |-> l.ret, abort |-> NoAbort]
                 ELSE insert_tail(l.tree, l.ret)
        ELSE IF self.left # None /\ new_value < self.value
        THEN \* 168-173
             LET c == insert(self.left[1], new_value)
                 incr == c.ret
                 self1 == [self EXCEPT !.left = Some(c.tree)]
                 self2 == [self1 EXCEPT !.metadata = <<left_height + incr, right_height>>]
             IN  IF c.abort # NoAbort
                 THEN [tree |-> self1, ret |-> 0, abort |-> c.abort]
                 ELSE IF ~(incr < 2)
                 THEN [tree |-> self2, ret |-> 0, abort |-> "insert: assert incr < 2"]
                 ELSE insert_tail(self2, height_delta(left_height + incr, right_height, incr))
        ELSE IF new_value < self.value
        THEN \* 174-180
             IF left_height # 0
             THEN [tree |-> self, ret |-> 0, abort |-> "insert: assert_eq 0 left_height"]
             ELSE insert_tail([self EXCEPT !.left = Some(Leaf(new_value)),
                                           !.metadata = <<left_height + 1, right_height>>],
                              height_delta(left_height + 1, right_height, 1))
        ELSE IF self.right # None /\ new_value > self.value
        THEN \* 181-186
             LET c == insert(self.right[1], new_value)
                 incr == c.ret
                 self1 == [self EXCEPT !.right = Some(c.tree)]
                 self2 == [self1 EXCEPT !.metadata = <<left_height, right_height + incr>>]
             IN  IF c.abort # NoAbort
                 THEN [tree |-> self1, ret |-> 0, abort |-> c.abort]
                 ELSE IF ~(incr < 2)
                 THEN [tree |-> self2, ret |-> 0, abort |-> "insert: assert incr < 2"]
                 ELSE insert_tail(self2, height_delta(right_height + incr, left_height, incr))
        ELSE IF new_value > self.value
        THEN \* 187-193
             IF right_height # 0
             THEN [tree |-> self, ret |-> 0, abort |-> "insert: assert_eq 0 right_height"]
             ELSE insert_tail([self EXCEPT !.right = Some(Leaf(new_value)),
                                           !.metadata = <<left_height, right_height + 1>>],
                              height_delta(right_height + 1, left_height, 1))
        ELSE IF self.value = new_value
        THEN \* 194-196
             insert_tail(self, 0)
        ELSE \* 197
             [tree |-> self, ret |-> 0, abort |-> "insert: unreachable"]

RECURSIVE insert_recompute(_, _)
\* The engine of spec 4.1 step 4 and of the design notes: no delta is passed
\* up; on the way back every node recomputes its metadata from its children,
\* balances, and recomputes again.
insert_recompute(self, new_value) ==
    IF new_value = self.value
    THEN [tree |-> self, abort |-> NoAbort]
    ELSE
    LET c == IF new_value < self.value
             THEN IF self.left = None
                  THEN [tree |-> Leaf(new_value), abort |-> NoAbort]
                  ELSE insert_recompute(self.left[1], new_value)
             ELSE IF self.right = None
                  THEN [tree |-> Leaf(new_value), abort |-> NoAbort]
                  ELSE insert_recompute(self.right[1], new_value)
        self1 == IF new_value < self.value
                 THEN [self EXCEPT !.left = Some(c.tree)]
                 ELSE [self EXCEPT !.right = Some(c.tree)]
        b == balance(fix_metadata(self1))
    IN  IF c.abort # NoAbort
        THEN [tree |-> self1, abort |-> c.abort]
        ELSE IF b.abort # NoAbort
        THEN b
        ELSE [tree |-> fix_metadata(b.tree), abort |-> NoAbort]

RECURSIVE iter(_)
\* BinaryTree::iter (lines 97-124): the nodes of the tree, each with its subtree.
iter(t) ==
    {t} \cup (IF t.left # None THEN iter(t.left[1]) ELSE {})
        \cup (IF t.right # None THEN iter(t.right[1]) ELSE {})

\* ordering_property (lines 13-26).
ordering_property(bt) ==
    /\ bt.left # None => \A t \in iter(bt.left[1]) : bt.value > t.value
    /\ bt.right # None => \A t \in iter(bt.right[1]) : bt.value < t.value

\* height_is_maintained (lines 34-61).
height_is_maintained(bt) ==
    /\ bt.metadata[1] = IF bt.left = None THEN 0
                        ELSE max(bt.left[1].metadata[1], bt.left[1].metadata[2]) + 1
    /\ bt.metadata[2] = IF bt.right = None THEN 0
                        ELSE max(bt.right[1].metadata[1], bt.right[1].metadata[2]) + 1

\* balance_property (lines 66-70).
balance_property(bt) ==
    /\ bt.metadata[1] - bt.metadata[2] <= 1
    /\ bt.metadata[1] - bt.metadata[2] >= -1

RECURSIVE BinaryTrees(_)
\* The values of Option<Box<BinaryTree>> (lines 73-78) that hold exactly the
\* values of S in search-tree order, each node's metadata computed from its
\* children: None for the empty set, else every choice of a root.
BinaryTrees(S) ==
    IF S = {} THEN {None}
    ELSE UNION {
           { Some(fix_metadata([metadata |-> <<0, 0>>, value |-> v,
                                left |-> l, right |-> r])) :
               l \in BinaryTrees({x \in S : x < v}),
               r \in BinaryTrees({x \in S : x > v}) } : v \in S }

----------------------------------------------------------------------------
\* The program: a tree is made of one node (Arbitrary, line 85) and values
\* are inserted into it one after the other (lines 86-88).  `shadow` is the
\* tree of the engine that recomputes heights, fed the same values.

Init ==
    /\ \E v \in Values : tree = Leaf(v) /\ lastValue = v /\ hist = <<v>>
    /\ prev = tree
    /\ shadow = tree
    /\ op = "new"
    /\ ret = 0
    /\ abort = NoAbort

\* tree.insert(v), line 87.  A panic ends the program.
Insert(v) ==
    /\ abort = NoAbort
    /\ LET r == insert(tree, v)
       IN  /\ tree' = r.tree
           /\ ret' = r.ret
           /\ abort' = r.abort
    /\ prev' = tree
    /\ shadow' = insert_recompute(shadow, v).tree
    /\ op' = "insert"
    /\ lastValue' = v
    /\ hist' = IF hist # <<>> /\ Len(hist) < HistLen THEN Append(hist, v) ELSE <<>>

Next == \E v \in Values : Insert(v)

Spec == Init /\ [][Next]_vars

----------------------------------------------------------------------------
\* The rotations as operations of their own, on any search tree.

InitRot ==
    /\ \E S \in (SUBSET RotValues) \ {{}} : \E t \in BinaryTrees(S) : tree = t[1]
    /\ prev = tree
    /\ shadow = tree
    /\ op = "new"
    /\ lastValue = tree.value
    /\ ret = 0
    /\ abort = NoAbort
    /\ hist = <<>>

\* tree.rotate_left()
RotateLeft ==
    /\ abort = NoAbort
    /\ LET r == rotate_left(tree)
       IN  tree' = r.tree /\ abort' = r.abort
    /\ prev' = tree
    /\ op' = "rotate_left"
    /\ UNCHANGED <<shadow, lastValue, ret, hist>>

\* tree.rotate_right()
RotateRight ==
    /\ abort = NoAbort
    /\ LET r == rotate_right(tree)
       IN  tree' = r.tree /\ abort' = r.abort
    /\ prev' = tree
    /\ op' = "rotate_right"
    /\ UNCHANGED <<shadow, lastValue, ret, hist>>

NextRot == RotateLeft \/ RotateRight

SpecRot == InitRot /\ [][NextRot]_vars

----------------------------------------------------------------------------
\* What the properties are stated with.

RECURSIVE Size(_)
\* The number of nodes of a tree.
Size(t) ==
    1 + (IF t.left # None THEN Size(t.left[1]) ELSE 0)
      + (IF t.right # None THEN Size(t.right[1]) ELSE 0)

\* The values stored in a tree.
Vals(t) == {n.value : n \in iter(t)}

RECURSIVE Height(_)
\* The height of an optional subtree, from its shape alone: 0 when absent,
\* else the number of nodes on its longest path to a leaf.
Height(o) ==
    IF o = None THEN 0
    ELSE 1 + max(Height(o[1].left), Height(o[1].right))

RECURSIVE InOrder(_)
\* The values of an optional subtree from left to right.
InOrder(o) ==
    IF o = None THEN <<>>
    ELSE InOrder(o[1].left) \o <<o[1].value>> \o InOrder(o[1].right)

RECURSIVE SearchPath(_, _)
\* The nodes on which insert(_, v) is called when it is called on t: t, and
\* the child it recurses into (lines 169, 182).
SearchPath(t, v) ==
    {t} \cup (IF t.left = None /\ t.right = None THEN {}
              ELSE IF t.left # None /\ v < t.value THEN SearchPath(t.left[1], v)
              ELSE IF t.right # None /\ v > t.value THEN SearchPath(t.right[1], v)
              ELSE {})

\* The last operation was an insert of a value the tree did not hold.
InsertedNew == op = "insert" /\ lastValue \notin Vals(prev)

\* The last operation was an insert of a value the tree held already.
InsertedDuplicate == op = "insert" /\ lastValue \in Vals(prev)

\* The values of a node's children.
ChildValues(t) ==
    (IF t.left # None THEN {t.left[1].value} ELSE {})
        \cup (IF t.right # None THEN {t.right[1].value} ELSE {})

----------------------------------------------------------------------------
\* C1. Ordering: after any sequence of inserts, at every node of the tree
\* every value of the left subtree is smaller than the node's value and every
\* value of the right subtree is greater.
C1_Ordering == abort = NoAbort => \A n \in iter(tree) : ordering_property(n)

\* An insert into a tree of five or more nodes that put another node at the root.
C1_Witness ==
    /\ InsertedNew /\ abort = NoAbort
    /\ Size(prev) >= 5
    /\ tree.value # prev.value
    /\ tree.left # None /\ tree.right # None

\* C2. Balance: after any sequence of completed inserts the stored heights of
\* every node differ by at most one.
C2_Balance == abort = NoAbort => \A n \in iter(tree) : balance_property(n)

\* An insert after which a former grandchild of the root is the root (a double
\* rotation), in a tree of six or more nodes.
C2_Witness ==
    /\ InsertedNew /\ abort = NoAbort
    /\ Size(tree) >= 6
    /\ tree.value \notin ({prev.value} \cup ChildValues(prev))
    /\ tree.value \in Vals(prev)

\* C3. Height correctness: after any sequence of completed inserts every node's
\* metadata is what fix_metadata computes from its children, and equals the
\* heights of its two subtrees as their shapes give them.
C3_HeightCorrect ==
    abort = NoAbort =>
        \A n \in iter(tree) :
            /\ height_is_maintained(n)
            /\ n.metadata = <<Height(n.left), Height(n.right)>>

\* A rotation below the root moved nodes of a tree whose root has two subtrees
\* of height 2 or more.
C3_Witness ==
    /\ InsertedNew /\ abort = NoAbort
    /\ tree.value = prev.value
    /\ tree.metadata[1] >= 2 /\ tree.metadata[2] >= 2
    /\ ChildValues(tree) # ChildValues(prev)

\* C4. Inserting a value the tree holds returns 0, does not abort and leaves
\* the whole tree as it was, metadata included.
C4_DuplicateNoOp ==
    InsertedDuplicate => ret = 0 /\ abort = NoAbort /\ tree = prev

\* A duplicate of a value held by an inner node that is not the root.
C4_Witness ==
    /\ InsertedDuplicate
    /\ \E n \in iter(prev) :
           n.value = lastValue /\ n # prev /\ n.left # None /\ n.right # None

\* C5. Inserting a value the tree does not hold adds one node, that value and
\* no other, and removes none; inserting a value it holds leaves the nodes as
\* they were.  No value is stored twice, and the placeholders of the rotations
\* (value 0) are not in the tree.
C5_SizeMonotone ==
    op = "insert" =>
        /\ Size(tree) = Cardinality(Vals(tree))
        /\ 0 \notin Vals(tree)
        /\ IF lastValue \in Vals(prev)
           THEN Size(tree) = Size(prev) /\ Vals(tree) = Vals(prev)
           ELSE Size(tree) = Size(prev) + 1
                /\ Vals(tree) = Vals(prev) \cup {lastValue}

\* A new value whose insert rotated the root of a tree of four or more nodes
\* to the left, the promoted node handing over a subtree.
C5_Witness ==
    /\ InsertedNew
    /\ Size(prev) >= 4
    /\ prev.right # None /\ tree.value = prev.right[1].value
    /\ prev.right[1].left # None

\* C6. Inserting 10, 20, 30 and inserting 30, 10, 20 both give the tree with
\* root 20 and metadata (1,1) whose children are the leaves 10 and 30.
C6_Scenarios ==
    (hist = <<10, 20, 30>> \/ hist = <<30, 10, 20>>) =>
        /\ abort = NoAbort
        /\ tree = [metadata |-> <<1, 1>>, value |-> 20,
                   left |-> Some(Leaf(10)), right |-> Some(Leaf(30))]

\* 30, 10, 20 were inserted: the double rotation.
C6_Witness == hist = <<30, 10, 20>> /\ prev.value = 30 /\ prev.left # None

\* C7. No insert aborts: none of the assertions of insert and balance fails,
\* no rotation is applied to a node without the child to promote, and the
\* unreachable arm is not taken.
C7_NoAbort == abort = NoAbort

\* An insert that ran balance with a difference of 2 or -2 at a node below the
\* root and completed.
C7_Witness ==
    /\ InsertedNew /\ abort = NoAbort
    /\ \E s \in SearchPath(prev, lastValue) :
           /\ s # prev
           /\ insert(s, lastValue).tree.value # s.value

\* C8. At every node insert is called on, the returned delta is 0 or 1 and is
\* the height of the subtree after the call minus its height before; and the
\* metadata the caller gets by adding the delta is the height of that subtree.
C8_ExactDelta ==
    op = "insert" =>
        \A s \in SearchPath(prev, lastValue) :
            LET r == insert(s, lastValue)
            IN  /\ r.abort = NoAbort
                /\ r.ret \in {0, 1}
                /\ r.ret = Height(Some(r.tree)) - Height(Some(s))
                /\ s.left # None /\ s.left[1] \in SearchPath(prev, lastValue) =>
                       LET c == insert(s.left[1], lastValue)
                       IN  s.metadata[1] + c.ret
                               = max(c.tree.metadata[1], c.tree.metadata[2]) + 1
                /\ s.right # None /\ s.right[1] \in SearchPath(prev, lastValue) =>
                       LET c == insert(s.right[1], lastValue)
                       IN  s.metadata[2] + c.ret
                               = max(c.tree.metadata[1], c.tree.metadata[2]) + 1

\* A call that rotated and returned 0, and a call on a node with two children
\* that returned 1, in the same insert.
C8_Witness ==
    /\ InsertedNew
    /\ \E s \in SearchPath(prev, lastValue) :
           /\ insert(s, lastValue).tree.value # s.value
           /\ insert(s, lastValue).ret = 0
    /\ \E s \in SearchPath(prev, lastValue) :
           s.left # None /\ s.right # None /\ insert(s, lastValue).ret = 1

\* C9. The engine that recomputes the heights instead of passing deltas builds
\* the same tree from the same values.
C9_RecomputeEquivalent == abort = NoAbort => tree = shadow

\* Both engines rotated at a node below the root.
C9_Witness ==
    /\ InsertedNew /\ abort = NoAbort
    /\ Size(tree) >= 6
    /\ tree.value = prev.value
    /\ (\E n \in iter(tree) : n.metadata[1] # n.metadata[2])
    /\ ChildValues(shadow) # ChildValues(prev)

\* C10. rotate_left of X (left subtree A, right child R with subtrees B, C)
\* gives R with left child X and right subtree C, X with subtrees A and B, the
\* three subtrees untouched, both metadata exact; rotate_right is the mirror
\* image; the values from left to right stay as they were.
C10_RotationShape ==
    /\ op = "rotate_left" /\ prev.right # None =>
           LET X == prev
               R == prev.right[1]
           IN  /\ abort = NoAbort
               /\ tree.value = R.value
               /\ tree.right = R.right
               /\ tree.left # None
               /\ tree.left[1].value = X.value
               /\ tree.left[1].left = X.left
               /\ tree.left[1].right = R.left
               /\ tree.left[1].metadata = <<Height(X.left), Height(R.left)>>
               /\ tree.metadata = <<Height(tree.left), Height(R.right)>>
               /\ InOrder(Some(tree)) = InOrder(Some(prev))
    /\ op = "rotate_right" /\ prev.left # None =>
           LET X == prev
               L == prev.left[1]
           IN  /\ abort = NoAbort
               /\ tree.value = L.value
               /\ tree.left = L.left
               /\ tree.right # None
               /\ tree.right[1].value = X.value
               /\ tree.right[1].right = X.right
               /\ tree.right[1].left = L.right
               /\ tree.right[1].metadata = <<Height(L.right), Height(X.right)>>
               /\ tree.metadata = <<Height(L.left), Height(tree.right)>>
               /\ InOrder(Some(tree)) = InOrder(Some(prev))

\* A rotate_left of a node whose A, B and C are all present.
C10_Witness ==
    /\ op = "rotate_left" /\ abort = NoAbort
    /\ prev.left # None /\ prev.right # None
    /\ prev.right[1].left # None /\ prev.right[1].right # None

====
